---- MODULE Spec2Model ----
(***************************************************************************)
(* Memento demo of src/design-pattern/behavioral/Memento.ts: an Originator *)
(* holding one string, ConcreteMemento snapshots of it, and a Caretaker    *)
(* keeping the snapshots in an array used as a stack.                      *)
(*                                                                         *)
(* Strings are sequences of one-character strings, so that substr is a    *)
(* real prefix operation.  A memento carries, next to the two fields of    *)
(* ConcreteMemento, the number of its allocation (id): the identity of the *)
(* object, which the code has through the reference.                       *)
(***************************************************************************)
EXTENDS Integers, Sequences, FiniteSets, TLC

\* ------------------------------------------------------------------ bounds
\* Number of mementos allocated (by save) in one run.
MaxBackups == 3
\* Seconds the clock of new Date() advances in one run.
MaxClock == 1
\* State objects the contexts allocate in a run.
MaxStateObjects == 6
\* Items added to a words collection.
MaxItems == 3
\* Iterators created and rewinds made in a run.
MaxRestarts == 3

\* ------------------------------------------------------- program constants
\* ConcreteMemento.getName: this.state.substr(0, 9)
NameLen == 9

\* Characters generateRandomString draws from (three of the 52 of charSet).
charSet == {"A", "B", "C"}

\* A state longer than NameLen, as the demo's 'Super-duper-super-puper-super.'
LongState == <<"S", "u", "p", "e", "r", "-", "d", "u", "p", "e", "r">>

\* Values the constructor is given as the initial state.
InitialStates == {<<c>> : c \in charSet} \cup {LongState}

\* The two Originator objects of a run; the Caretaker is bound to the first.
Originators == {"o1", "o2"}
Bound == "o1"

\* JavaScript's undefined: the result of a void method, of pop() on [].
\* (A record, as the mementos it is compared with are.)
Undefined == [undefined |-> TRUE]

VARIABLES
  live,       \* the originators constructed so far
  state,      \* Originator.state, per originator (<<>> before construction)
  mementos,   \* Caretaker.mementos
  held,       \* the memento the client holds from its own call of save(), or Undefined
  clock,      \* the second new Date() last read
  out,        \* the lines the last call of showHistory printed (<<>> for any other call)
  ret,        \* what the last call returned
  thrown,     \* whether the last call ended in the throw of Caretaker.undo
  \* ---- history variables, read by the properties only
  nextId,     \* number of the next memento allocated
  v0,         \* the state each originator was constructed with
  lastOp,     \* the last call made
  lastArg,    \* the originator the last call was made on
  popped,     \* the memento the last call, an undo, popped; Undefined otherwise
  rt,         \* recogniser of (doSomething backup)^n undo^k from construction
  bd,         \* recogniser of (backup doSomething)^n undo^k from construction
  lifo,       \* the current run of backups and the undos that followed it
  \* ---- chain of responsibility (2.ts)
  nextHandler,  \* AbstractHandler.nextHandler, per handler
  request,      \* the request of the last handle call
  entry,        \* the handler the last handle call was made on
  result,       \* what the last handle call returned (a string, as a sequence)
  printed,      \* the line clientCode printed for it
  consulted,    \* the handlers whose handle ran in the last call, in order
  overflow,     \* whether the last handle call ended in a stack overflow
  \* ---- command (Command.ts)
  onStart,      \* Invoker.onStart: a command, or Undefined
  onFinish,     \* Invoker.onFinish: a command, or Undefined
  executed,     \* the commands the last doSomethingImportant executed, in order
  console,      \* the lines the last doSomethingImportant logged
  typeError,    \* whether the last doSomethingImportant ended in a TypeError
  invokerOp,    \* the last call made on the invoker
  \* ---- state (State.ts)
  contextState, \* Context.state of each context: a state object, 0 before construction
  stateObjects, \* the state objects allocated so far: class and back-reference
  contextOp,    \* the last call made on a context
  \* ---- observer (Command.ts)
  observers,    \* ConcreteSubject.observers
  subjectState, \* ConcreteSubject.state
  updated,      \* the update calls of the last notify, in order
  subjectLog,   \* what the last attach or detach logged
  subjectOp,    \* the last call made on the subject
  detached,     \* the observers detached and not attached again since
  \* ---- iterator (Iterator.ts)
  items,        \* WordsCollection.items
  iterator,     \* the client's iterator: whether created, reverse, position
  yielded,      \* what next() returned since the iterator was created or rewound
  previous,     \* what the traversal ended by the last rewind had yielded
  modified,     \* whether an item was added since the iterator was created
  restarts,     \* iterators created and rewinds made so far
  iteratorOp    \* the last call made on the collection or the iterator

mementoVars == <<live, state, mementos, held, clock, out, ret, thrown,
                 nextId, v0, lastOp, lastArg, popped, rt, bd, lifo>>

chainVars == <<nextHandler, request, entry, result, printed, consulted, overflow>>

invokerVars == <<onStart, onFinish, executed, console, typeError, invokerOp>>

contextVars == <<contextState, stateObjects, contextOp>>

subjectVars == <<observers, subjectState, updated, subjectLog, subjectOp, detached>>

iteratorVars == <<items, iterator, yielded, previous, modified, restarts, iteratorOp>>

vars == <<mementoVars, chainVars, invokerVars, contextVars, subjectVars, iteratorVars>>

\* ------------------------------------------------------------- pure helpers
Min(a, b) == IF a < b THEN a ELSE b

\* String.prototype.substr(0, n)
Substr0(s, n) == SubSeq(s, 1, Min(n, Len(s)))

\* generateRandomString: Array({ length }) is an array of ONE element (the
\* object), so map/join yield a single character of charSet.
generateRandomString == {<<c>> : c \in charSet}

\* new ConcreteMemento(state): copies the string and stamps the date d that
\* new Date() reads.  id and owner are the object's identity and the
\* originator whose save() made it; the code stores neither.
ConcreteMemento(s, d, i, o) == [state |-> s, date |-> d, id |-> i, owner |-> o]

getState(m) == m.state

getDate(m) == m.date

\* `${this.date} / (${this.state.substr(0, 9)}...)`
getName(m) == [date |-> getDate(m), prefix |-> Substr0(m.state, NameLen)]

\* Originator.save, at second d
save(o, d) == ConcreteMemento(state[o], d, nextId, o)

\* The mutant of restore: the assignment is lost.
restoreNothing(o, m) == state

\* The mutant of restore: a restore that refuses a memento of another originator.
restoreOwnOnly(o, m) == IF m.owner = o THEN [state EXCEPT ![o] = getState(m)] ELSE state

\* Originator.restore: this.state = memento.getState()
restore(o, m) == [state EXCEPT ![o] = getState(m)]

\* The mutant of ArrayPush: a memento equal in state to the last one is not pushed.
ArrayPushDistinct(arr, x) ==
  IF arr # <<>> /\ getState(arr[Len(arr)]) = getState(x) THEN arr ELSE Append(arr, x)

\* Array.prototype.push
ArrayPush(arr, x) == Append(arr, x)

\* The mutant of noMementos: the early return of undo is lost.
noMementosNever(arr) == FALSE

\* !this.mementos.length
noMementos(arr) == Len(arr) = 0

\* The mutant of ArrayPop: shift(), which takes the oldest element.
ArrayShift(arr) ==
  IF arr = <<>> THEN [elem |-> Undefined, rest |-> arr]
  ELSE [elem |-> Head(arr), rest |-> Tail(arr)]

\* The mutant of ArrayPop: the last element is read and left in the array.
ArrayPeek(arr) ==
  IF arr = <<>> THEN [elem |-> Undefined, rest |-> arr]
  ELSE [elem |-> arr[Len(arr)], rest |-> arr]

\* Array.prototype.pop: the last element (undefined on []), and what is left.
ArrayPop(arr) ==
  IF arr = <<>> THEN [elem |-> Undefined, rest |-> arr]
  ELSE [elem |-> arr[Len(arr)], rest |-> SubSeq(arr, 1, Len(arr) - 1)]

\* The mutant of historyLines: the newest memento first.
historyLinesNewestFirst(arr) ==
  [i \in 1..Len(arr) |-> getName(arr[Len(arr) + 1 - i])]

\* for (const memento of this.mementos) console.log(memento.getName())
historyLines(arr) == [i \in 1..Len(arr) |-> getName(arr[i])]

\* ------------------------------------------- chain of responsibility (2.ts)
\* const monkey, squirrel, dog
Handlers == {"monkey", "squirrel", "dog"}

\* An unset nextHandler, and no handler at all.
NoHandler == "none"

\* The requests made: the three foods of clientCode, and the dog's.
Foods == {"Nut", "Banana", "Cup of coffee", "MeatBall"}

\* if (request === '...') of MonkeyHandler, SquirrelHandler, DogHandler
recognises(h, req) ==
  \/ h = "monkey" /\ req = "Banana"
  \/ h = "squirrel" /\ req = "Nut"
  \/ h = "dog" /\ req = "MeatBall"

\* `Monkey: I'll eat the ${request}.` and the like, as a sequence of pieces
response(h, req) == <<h, ": I'll eat the ", req, ".">>

\* return 'abstract' of AbstractHandler.handle
abstractResult == <<"abstract">>

\* if (result): a string is truthy when it is not empty
truthy(str) == Len(str) > 0

\* handler.handle(request), depth counting the frames left on the stack:
\* the concrete handle answers a request it recognises and calls
\* super.handle otherwise, which calls the next handler or returns 'abstract'.
RECURSIVE handle(_, _, _)
handle(h, req, depth) ==
  IF recognises(h, req)
  THEN [result |-> response(h, req), consulted |-> <<h>>, overflow |-> FALSE]
  ELSE IF nextHandler[h] # NoHandler
       THEN IF depth = 0
            THEN [result |-> <<>>, consulted |-> <<h>>, overflow |-> TRUE]
            ELSE LET r == handle(nextHandler[h], req, depth - 1) IN
                 [r EXCEPT !.consulted = <<h>> \o r.consulted]
       ELSE [result |-> abstractResult, consulted |-> <<h>>, overflow |-> FALSE]

\* The line clientCode prints for a result.
clientLine(food, res) ==
  IF truthy(res) THEN <<"  ">> \o res ELSE <<"  ", food, " was left untouched.">>

\* new MonkeyHandler(); new SquirrelHandler(); new DogHandler()
InitChain ==
  /\ nextHandler = [h \in Handlers |-> NoHandler]
  /\ request = ""
  /\ entry = NoHandler
  /\ result = <<>>
  /\ printed = <<>>
  /\ consulted = <<>>
  /\ overflow = FALSE

\* AbstractHandler.setNext (what the last handle call left is forgotten)
setNext(h, g) ==
  /\ nextHandler' = [nextHandler EXCEPT ![h] = g]
  /\ request' = ""
  /\ entry' = NoHandler
  /\ result' = <<>>
  /\ printed' = <<>>
  /\ consulted' = <<>>
  /\ overflow' = FALSE

\* One round of clientCode's loop on handler h: handle(food), and the line
\* printed.  A chain that is a cycle never returns for a request nobody
\* recognises: the recursion overflows the stack.
clientCode(h, food) ==
  LET r == handle(h, food, Cardinality(Handlers)) IN
  /\ request' = food
  /\ entry' = h
  /\ result' = r.result
  /\ consulted' = r.consulted
  /\ overflow' = r.overflow
  /\ printed' = IF r.overflow THEN <<>> ELSE clientLine(food, r.result)
  /\ UNCHANGED nextHandler

\* ------------------------------------------------------ command (Command.ts)
\* The commands a client gives the invoker: SimpleCommand(payload) and
\* ComplexCommand(receiver, a, b).
SimpleCommand(payload) == [class |-> "SimpleCommand", payload |-> payload]
ComplexCommand(a, b) == [class |-> "ComplexCommand", a |-> a, b |-> b]

Commands ==
  {SimpleCommand(p) : p \in {"Say Hi!", "Say Bye!"}}
    \cup {ComplexCommand("Send email", b) : b \in {"Save report", "Print report"}}

\* What execute() logs: SimpleCommand its payload, ComplexCommand its own
\* line and the two lines of the receiver.
execute(c) ==
  IF c.class = "SimpleCommand"
  THEN <<[by |-> "SimpleCommand", text |-> c.payload]>>
  ELSE <<[by |-> "ComplexCommand", text |-> ""],
         [by |-> "Receiver.doSomething", text |-> c.a],
         [by |-> "Receiver.doSomethingElse", text |-> c.b]>>

\* isCommand reads object.execute: a TypeError when object is undefined.
isCommandThrows(object) == object = Undefined

\* isCommand(object): object.execute !== undefined, for an object that is one.
isCommand(object) == object \in Commands

InvokerLine(text) == [by |-> "Invoker", text |-> text]

\* const invoker = new Invoker()
InitInvoker ==
  /\ onStart = Undefined
  /\ onFinish = Undefined
  /\ executed = <<>>
  /\ console = <<>>
  /\ typeError = FALSE
  /\ invokerOp = "new"

\* Invoker.setOnStart
setOnStart(c) ==
  /\ onStart' = c
  /\ executed' = <<>>
  /\ console' = <<>>
  /\ typeError' = FALSE
  /\ invokerOp' = "setOnStart"
  /\ UNCHANGED onFinish

\* Invoker.setOnFinish
setOnFinish(c) ==
  /\ onFinish' = c
  /\ executed' = <<>>
  /\ console' = <<>>
  /\ typeError' = FALSE
  /\ invokerOp' = "setOnFinish"
  /\ UNCHANGED onStart

\* Invoker.doSomethingImportant: logs, asks isCommand(onStart) and executes
\* it, logs twice, asks isCommand(onFinish) and executes it.  Each
\* isCommand throws when its field is unset, which ends the call there.
doSomethingImportant ==
  LET before == <<InvokerLine("before I begin?")>>
      first == IF isCommand(onStart) THEN execute(onStart) ELSE <<>>
      middle == <<InvokerLine("...doing something really important..."),
                  InvokerLine("after I finish?")>>
      second == IF isCommand(onFinish) THEN execute(onFinish) ELSE <<>>
  IN
  /\ IF isCommandThrows(onStart)
     THEN /\ typeError' = TRUE
          /\ executed' = <<>>
          /\ console' = before
     ELSE IF isCommandThrows(onFinish)
     THEN /\ typeError' = TRUE
          /\ executed' = IF isCommand(onStart) THEN <<onStart>> ELSE <<>>
          /\ console' = before \o first \o middle
     ELSE /\ typeError' = FALSE
          /\ executed' = (IF isCommand(onStart) THEN <<onStart>> ELSE <<>>)
                            \o (IF isCommand(onFinish) THEN <<onFinish>> ELSE <<>>)
          /\ console' = before \o first \o middle \o second
  /\ invokerOp' = "doSomethingImportant"
  /\ UNCHANGED <<onStart, onFinish>>

\* ---------------------------------------------------------- state (State.ts)
Contexts == {"c1", "c2"}
NoContext == "none"
StateClasses == {"ConcreteStateA", "ConcreteStateB"}

\* new ConcreteStateA() / new ConcreteStateB(): the back-reference is unset.
NewState(class) == [class |-> class, context |-> NoContext]

\* State.setContext
setContext(stateObject, c) == [stateObject EXCEPT !.context = c]

\* The mutant of transitionTo: the back-reference is set to another context.
transitionToOther(c, class) ==
  /\ stateObjects' = Append(stateObjects,
                            setContext(NewState(class), CHOOSE d \in Contexts : d # c))
  /\ contextState' = [contextState EXCEPT ![c] = Len(stateObjects) + 1]

\* Context.transitionTo(new class()): the new state object becomes the
\* state of the context and gets the context as its back-reference.
transitionTo(c, class) ==
  /\ stateObjects' = Append(stateObjects, setContext(NewState(class), c))
  /\ contextState' = [contextState EXCEPT ![c] = Len(stateObjects) + 1]

\* handle1 of the state object id: ConcreteStateA asks its context for
\* ConcreteStateB, ConcreteStateB only logs.
handle1(id) ==
  IF stateObjects[id].class = "ConcreteStateA"
  THEN transitionTo(stateObjects[id].context, "ConcreteStateB")
  ELSE UNCHANGED <<contextState, stateObjects>>

\* handle2 of the state object id: ConcreteStateB asks its context for
\* ConcreteStateA, ConcreteStateA only logs.
handle2(id) ==
  IF stateObjects[id].class = "ConcreteStateB"
  THEN transitionTo(stateObjects[id].context, "ConcreteStateA")
  ELSE UNCHANGED <<contextState, stateObjects>>

InitContext ==
  /\ contextState = [c \in Contexts |-> 0]
  /\ stateObjects = <<>>
  /\ contextOp = [op |-> "none", context |-> NoContext]

\* const c = new Context(new class())
newContext(c, class) ==
  /\ contextState[c] = 0
  /\ Len(stateObjects) < MaxStateObjects
  /\ transitionTo(c, class)
  /\ contextOp' = [op |-> "new", context |-> c]

\* Context.request1
request1(c) ==
  /\ contextState[c] # 0
  /\ Len(stateObjects) < MaxStateObjects
  /\ handle1(contextState[c])
  /\ contextOp' = [op |-> "request1", context |-> c]

\* Context.request2
request2(c) ==
  /\ contextState[c] # 0
  /\ Len(stateObjects) < MaxStateObjects
  /\ handle2(contextState[c])
  /\ contextOp' = [op |-> "request2", context |-> c]

\* ------------------------------------------------------ observer (Command.ts)
\* Math.floor(Math.random() * (10 + 1)) is one of 0..RandomMax.
RandomMax == 10
\* ConcreteObserverA reacts to a state below ReactBelow.
ReactBelow == 3
\* ConcreteObserverB reacts to the state 0 and to a state from ReactFrom on.
ReactFrom == 2

ObserverIds == {"observer1", "observer2", "observer3"}

ObserverClass(o) == IF o = "observer2" THEN "ConcreteObserverB" ELSE "ConcreteObserverA"

\* Array.prototype.includes
includes(array, x) == \E i \in 1..Len(array) : array[i] = x

\* Array.prototype.indexOf: the first index (from 0) of x, -1 when absent.
indexOf(array, x) ==
  IF includes(array, x)
  THEN (CHOOSE i \in 1..Len(array) :
          array[i] = x /\ \A j \in 1..(i - 1) : array[j] # x) - 1
  ELSE -1

\* The mutant of splice: everything from the index on is removed.
spliceRest(array, index, count) == SubSeq(array, 1, index)

\* Array.prototype.splice(index, count) for an index inside the array: the
\* array without the count elements from index (from 0) on.
splice(array, index, count) ==
  SubSeq(array, 1, index) \o SubSeq(array, index + count + 1, Len(array))

\* Observer.update(subject): whether the observer logs its reaction.
update(o, st) ==
  IF ObserverClass(o) = "ConcreteObserverA"
  THEN st < ReactBelow
  ELSE st = 0 \/ st >= ReactFrom

\* The mutant of updates: the observers are visited from the last one.
updatesBackwards(array, st) ==
  [i \in 1..Len(array) |->
     [observer |-> array[Len(array) + 1 - i],
      reacted |-> update(array[Len(array) + 1 - i], st)]]

\* for (const observer of this.observers) observer.update(this)
updates(array, st) ==
  [i \in 1..Len(array) |-> [observer |-> array[i], reacted |-> update(array[i], st)]]

\* const subject = new ConcreteSubject()
InitSubject ==
  /\ observers = <<>>
  /\ subjectState = 0
  /\ updated = <<>>
  /\ subjectLog = ""
  /\ subjectOp = [op |-> "new", observer |-> "none"]
  /\ detached = {}

\* ConcreteSubject.attach
attach(o) ==
  /\ IF includes(observers, o)
     THEN /\ subjectLog' = "Subject: Observer has been attached already."
          /\ UNCHANGED observers
     ELSE /\ subjectLog' = "Subject: Attached an observer."
          /\ observers' = Append(observers, o)
  /\ detached' = detached \ {o}
  /\ updated' = <<>>
  /\ subjectOp' = [op |-> "attach", observer |-> o]
  /\ UNCHANGED subjectState

\* ConcreteSubject.detach
detach(o) ==
  LET observerIndex == indexOf(observers, o) IN
  /\ IF observerIndex = -1
     THEN /\ subjectLog' = "Subject: Nonexistent observer."
          /\ UNCHANGED <<observers, detached>>
     ELSE /\ observers' = splice(observers, observerIndex, 1)
          /\ subjectLog' = "Subject: Detached an observer."
          /\ detached' = detached \cup {o}
  /\ updated' = <<>>
  /\ subjectOp' = [op |-> "detach", observer |-> o]
  /\ UNCHANGED subjectState

\* ConcreteSubject.notify
notify ==
  /\ updated' = updates(observers, subjectState)
  /\ subjectLog' = ""
  /\ subjectOp' = [op |-> "notify", observer |-> "none"]
  /\ UNCHANGED <<observers, subjectState, detached>>

\* ConcreteSubject.someBusinessLogic: the state is drawn, then notify().
someBusinessLogic ==
  \E n \in 0..RandomMax :
    /\ subjectState' = n
    /\ updated' = updates(observers, n)
    /\ subjectLog' = ""
    /\ subjectOp' = [op |-> "someBusinessLogic", observer |-> "none"]
    /\ UNCHANGED <<observers, detached>>

\* ---------------------------------------------------- iterator (Iterator.ts)
Words == {"First", "Second"}

\* WordsCollection.getCount
getCount(coll) == Len(coll)

\* items[position] of a JavaScript array: undefined outside the array.
ItemAt(coll, position) ==
  IF position \in 0..(Len(coll) - 1) THEN coll[position + 1] ELSE Undefined

\* new AlphabeticalOrderIterator(collection, reverse)
AlphabeticalOrderIterator(coll, reverse) ==
  [created |-> TRUE,
   reverse |-> reverse,
   position |-> IF reverse THEN getCount(coll) - 1 ELSE 0]

\* No iterator yet.
NoIterator == [created |-> FALSE, reverse |-> FALSE, position |-> 0]

\* AlphabeticalOrderIterator.valid
valid(it, coll) ==
  IF it.reverse THEN it.position >= 0 ELSE it.position < getCount(coll)

\* AlphabeticalOrderIterator.current
current(it, coll) == ItemAt(coll, it.position)

\* AlphabeticalOrderIterator.key
key(it) == it.position

\* AlphabeticalOrderIterator.next: the item returned and the iterator after.
next(it, coll) ==
  [item |-> ItemAt(coll, it.position),
   iterator |-> [it EXCEPT !.position = it.position + (IF it.reverse THEN -1 ELSE 1)]]

\* The mutant of rewindTo: always the first position.
rewindToFirst(it, coll) == [it EXCEPT !.position = 0]

\* AlphabeticalOrderIterator.rewind: the iterator after.
rewindTo(it, coll) ==
  [it EXCEPT !.position = IF it.reverse THEN getCount(coll) - 1 ELSE 0]

NoPrevious == [complete |-> FALSE, yielded |-> <<>>]

\* const collection = new WordsCollection()
InitIterator ==
  /\ items = <<>>
  /\ iterator = NoIterator
  /\ yielded = <<>>
  /\ previous = NoPrevious
  /\ modified = FALSE
  /\ restarts = 0
  /\ iteratorOp = "new"

\* WordsCollection.addItem
addItem(item) ==
  /\ Len(items) < MaxItems
  /\ items' = Append(items, item)
  /\ modified' = iterator.created
  /\ iteratorOp' = "addItem"
  /\ UNCHANGED <<iterator, yielded, previous, restarts>>

\* const iterator = collection.getIterator()
getIterator ==
  /\ restarts < MaxRestarts
  /\ iterator' = AlphabeticalOrderIterator(items, FALSE)
  /\ yielded' = <<>>
  /\ previous' = NoPrevious
  /\ modified' = FALSE
  /\ restarts' = restarts + 1
  /\ iteratorOp' = "getIterator"
  /\ UNCHANGED items

\* const iterator = collection.getReverseIterator()
getReverseIterator ==
  /\ restarts < MaxRestarts
  /\ iterator' = AlphabeticalOrderIterator(items, TRUE)
  /\ yielded' = <<>>
  /\ previous' = NoPrevious
  /\ modified' = FALSE
  /\ restarts' = restarts + 1
  /\ iteratorOp' = "getReverseIterator"
  /\ UNCHANGED items

\* One round of `while (iterator.valid()) { iterator.next() }`.
whileValidNext ==
  /\ iterator.created
  /\ valid(iterator, items)
  /\ iterator' = next(iterator, items).iterator
  /\ yielded' = Append(yielded, next(iterator, items).item)
  /\ iteratorOp' = "next"
  /\ UNCHANGED <<items, previous, modified, restarts>>

\* iterator.rewind()
rewind ==
  /\ iterator.created
  /\ restarts < MaxRestarts
  /\ iterator' = rewindTo(iterator, items)
  /\ previous' = [complete |-> ~valid(iterator, items), yielded |-> yielded]
  /\ yielded' = <<>>
  /\ restarts' = restarts + 1
  /\ iteratorOp' = "rewind"
  /\ UNCHANGED <<items, modified>>

\* ------------------------------------------------------------------- Init
\* const originator = new Originator(s); const caretaker = new Caretaker(originator)
Init ==
  /\ InitChain
  /\ InitInvoker
  /\ InitContext
  /\ InitSubject
  /\ InitIterator
  /\ live = {Bound}
  /\ \E s \in InitialStates : state = [o \in Originators |-> IF o = Bound THEN s ELSE <<>>]
  /\ mementos = <<>>
  /\ held = Undefined
  /\ clock = 0
  /\ out = <<>>
  /\ ret = Undefined
  /\ thrown = FALSE
  /\ nextId = 1
  /\ v0 = state
  /\ lastOp = "new"
  /\ lastArg = Bound
  /\ popped = Undefined
  /\ rt = [phase |-> "build", pending |-> FALSE, vals |-> <<>>, k |-> 0]
  /\ bd = [phase |-> "build", pending |-> FALSE, vals |-> <<>>, k |-> 0]
  /\ lifo = [caps |-> <<>>, restored |-> <<>>]

\* ------------------------------------------------- recognisers (history)
\* rt follows the calls on the bound originator and its caretaker from
\* construction, as long as they read (doSomething backup)^n undo^k, k <= n:
\* vals lists the n states captured, k counts the undos.
rtOff == [phase |-> "off", pending |-> FALSE, vals |-> <<>>, k |-> 0]

rtDoSomething ==
  IF rt.phase = "build" /\ ~rt.pending THEN [rt EXCEPT !.pending = TRUE]
  ELSE rtOff

rtBackup ==
  IF rt.phase = "build" /\ rt.pending
  THEN [rt EXCEPT !.pending = FALSE, !.vals = Append(rt.vals, state[Bound])]
  ELSE rtOff

rtUndo ==
  IF rt.phase \in {"build", "undo"} /\ ~rt.pending /\ rt.k < Len(rt.vals)
  THEN [rt EXCEPT !.phase = "undo", !.k = rt.k + 1]
  ELSE rtOff

\* bd does the same for the calls that read (backup doSomething)^n undo^k:
\* vals lists the n states captured, each the state before a doSomething.
bdBackup ==
  IF bd.phase = "build" /\ ~bd.pending
  THEN [bd EXCEPT !.pending = TRUE, !.vals = Append(bd.vals, state[Bound])]
  ELSE rtOff

bdDoSomething ==
  IF bd.phase = "build" /\ bd.pending THEN [bd EXCEPT !.pending = FALSE]
  ELSE rtOff

bdUndo ==
  IF bd.phase \in {"build", "undo"} /\ ~bd.pending /\ bd.k < Len(bd.vals)
  THEN [bd EXCEPT !.phase = "undo", !.k = bd.k + 1]
  ELSE rtOff

\* lifo lists the mementos made by the backups since the last undo (caps),
\* and the mementos the undos since the last backup popped, each with the
\* state the originator was left in (restored).
lifoBackup(m) ==
  IF lifo.restored # <<>> THEN [caps |-> <<m>>, restored |-> <<>>]
  ELSE [lifo EXCEPT !.caps = Append(lifo.caps, m)]

lifoUndo(m, s) ==
  [lifo EXCEPT !.restored = Append(lifo.restored, [id |-> m.id, left |-> s])]

\* ---------------------------------------------------------------- actions
\* new Originator(s) for a second originator
newOriginator(o) ==
  /\ o \notin live
  /\ live' = live \cup {o}
  /\ \E s \in InitialStates :
       /\ state' = [state EXCEPT ![o] = s]
       /\ v0' = [v0 EXCEPT ![o] = s]
  /\ out' = <<>>
  /\ ret' = Undefined
  /\ thrown' = FALSE
  /\ lastOp' = "new"
  /\ lastArg' = o
  /\ popped' = Undefined
  /\ UNCHANGED <<mementos, held, clock, nextId, rt, bd, lifo>>

\* The mutant of doSomething: the mementos share the originator's state
\* instead of holding a copy, so the new state shows in each of them.
doSomethingShared(o) ==
  /\ o \in live
  /\ \E s \in generateRandomString :
       /\ state' = [state EXCEPT ![o] = s]
       /\ mementos' = [i \in 1..Len(mementos) |->
                         IF mementos[i].owner = o
                         THEN [mementos[i] EXCEPT !.state = s] ELSE mementos[i]]
  /\ out' = <<>>
  /\ ret' = Undefined
  /\ thrown' = FALSE
  /\ lastOp' = "doSomething"
  /\ lastArg' = o
  /\ popped' = Undefined
  /\ rt' = IF o = Bound THEN rtDoSomething ELSE rt
  /\ bd' = IF o = Bound THEN bdDoSomething ELSE bd
  /\ UNCHANGED <<live, held, clock, nextId, v0, lifo>>

\* Originator.doSomething on originator o
doSomething(o) ==
  /\ o \in live
  /\ \E s \in generateRandomString : state' = [state EXCEPT ![o] = s]
  /\ out' = <<>>
  /\ ret' = Undefined
  /\ thrown' = FALSE
  /\ lastOp' = "doSomething"
  /\ lastArg' = o
  /\ popped' = Undefined
  /\ rt' = IF o = Bound THEN rtDoSomething ELSE rt
  /\ bd' = IF o = Bound THEN bdDoSomething ELSE bd
  /\ UNCHANGED <<live, mementos, held, clock, nextId, v0, lifo>>

\* Caretaker.backup: this.mementos.push(this.originator.save())
backup ==
  /\ nextId <= MaxBackups
  /\ \E d \in clock..MaxClock :
       /\ clock' = d
       /\ mementos' = ArrayPush(mementos, save(Bound, d))
       /\ lifo' = lifoBackup(save(Bound, d))
  /\ nextId' = nextId + 1
  /\ out' = <<>>
  /\ ret' = Undefined
  /\ thrown' = FALSE
  /\ lastOp' = "backup"
  /\ lastArg' = Bound
  /\ popped' = Undefined
  /\ rt' = rtBackup
  /\ bd' = bdBackup
  /\ UNCHANGED <<live, state, held, v0>>

\* Caretaker.undo: returns at once on an empty array; otherwise pops, throws
\* if the popped element is undefined, and restores the originator.
undo ==
  LET p == ArrayPop(mementos) IN
  /\ IF noMementos(mementos)
     THEN /\ thrown' = FALSE
          /\ popped' = Undefined
          /\ UNCHANGED <<state, mementos, lifo>>
     ELSE /\ mementos' = p.rest
          /\ popped' = p.elem
          /\ IF p.elem = Undefined
             THEN /\ thrown' = TRUE
                  /\ UNCHANGED <<state, lifo>>
             ELSE /\ thrown' = FALSE
                  /\ state' = restore(Bound, p.elem)
                  /\ lifo' = lifoUndo(p.elem, state'[Bound])
  /\ out' = <<>>
  /\ ret' = Undefined
  /\ lastOp' = "undo"
  /\ lastArg' = Bound
  /\ rt' = rtUndo
  /\ bd' = bdUndo
  /\ UNCHANGED <<live, held, clock, nextId, v0>>

\* The mutant of showHistory: the loop takes the mementos out of the array
\* as it prints them.
showHistoryDraining ==
  /\ out' = historyLines(mementos)
  /\ mementos' = <<>>
  /\ ret' = Undefined
  /\ thrown' = FALSE
  /\ lastOp' = "showHistory"
  /\ lastArg' = Bound
  /\ popped' = Undefined
  /\ UNCHANGED <<live, state, held, clock, nextId, v0, rt, bd, lifo>>

\* Caretaker.showHistory: prints getName() of each memento, in array order.
showHistory ==
  /\ out' = historyLines(mementos)
  /\ ret' = Undefined
  /\ thrown' = FALSE
  /\ lastOp' = "showHistory"
  /\ lastArg' = Bound
  /\ popped' = Undefined
  /\ UNCHANGED <<live, state, mementos, held, clock, nextId, v0, rt, bd, lifo>>

\* The client's own call of o.save(), keeping the memento.
clientSave(o) ==
  /\ o \in live
  /\ nextId <= MaxBackups
  /\ \E d \in clock..MaxClock :
       /\ clock' = d
       /\ held' = save(o, d)
       /\ ret' = save(o, d)
  /\ nextId' = nextId + 1
  /\ out' = <<>>
  /\ thrown' = FALSE
  /\ lastOp' = "save"
  /\ lastArg' = o
  /\ popped' = Undefined
  /\ UNCHANGED <<live, state, mementos, v0, rt, bd, lifo>>

\* The client's own call of o.restore(held).
clientRestore(o) ==
  /\ o \in live
  /\ held # Undefined
  /\ state' = restore(o, held)
  /\ out' = <<>>
  /\ ret' = Undefined
  /\ thrown' = FALSE
  /\ lastOp' = "restore"
  /\ lastArg' = o
  /\ popped' = Undefined
  /\ rt' = IF o = Bound THEN rtOff ELSE rt
  /\ bd' = IF o = Bound THEN rtOff ELSE bd
  /\ UNCHANGED <<live, mementos, held, clock, nextId, v0, lifo>>

\* One originator and its caretaker, as in the file's client code.
Next ==
  \/ doSomething(Bound) /\ UNCHANGED <<chainVars, invokerVars, contextVars, subjectVars, iteratorVars>>
  \/ backup /\ UNCHANGED <<chainVars, invokerVars, contextVars, subjectVars, iteratorVars>>
  \/ undo /\ UNCHANGED <<chainVars, invokerVars, contextVars, subjectVars, iteratorVars>>
  \/ showHistory /\ UNCHANGED <<chainVars, invokerVars, contextVars, subjectVars, iteratorVars>>

Spec == Init /\ [][Next]_vars

\* Two originators and the client's own save and restore calls on them.
NextOwners ==
  \/ \E o \in Originators : newOriginator(o) /\ UNCHANGED <<chainVars, invokerVars, contextVars, subjectVars, iteratorVars>>
  \/ \E o \in Originators : doSomething(o) /\ UNCHANGED <<chainVars, invokerVars, contextVars, subjectVars, iteratorVars>>
  \/ \E o \in Originators : clientSave(o) /\ UNCHANGED <<chainVars, invokerVars, contextVars, subjectVars, iteratorVars>>
  \/ \E o \in Originators : clientRestore(o) /\ UNCHANGED <<chainVars, invokerVars, contextVars, subjectVars, iteratorVars>>

SpecOwners == Init /\ [][NextOwners]_vars

\* The three handlers, chained by setNext in any way and asked by the client.
NextChain ==
  \/ \E h \in Handlers : \E g \in Handlers : setNext(h, g) /\ UNCHANGED <<mementoVars, invokerVars, contextVars, subjectVars, iteratorVars>>
  \/ \E h \in Handlers : \E food \in Foods : clientCode(h, food) /\ UNCHANGED <<mementoVars, invokerVars, contextVars, subjectVars, iteratorVars>>

SpecChain == Init /\ [][NextChain]_vars

\* The invoker, given commands and run by the client in any order.
NextInvoker ==
  \/ \E c \in Commands : setOnStart(c) /\ UNCHANGED <<mementoVars, chainVars, contextVars, subjectVars, iteratorVars>>
  \/ \E c \in Commands : setOnFinish(c) /\ UNCHANGED <<mementoVars, chainVars, contextVars, subjectVars, iteratorVars>>
  \/ doSomethingImportant /\ UNCHANGED <<mementoVars, chainVars, contextVars, subjectVars, iteratorVars>>

SpecInvoker == Init /\ [][NextInvoker]_vars

\* Contexts, each constructed with a state object of its own as the client
\* code does, and asked request1 and request2 in any order.
NextContext ==
  \/ \E c \in Contexts : \E class \in StateClasses :
       newContext(c, class) /\ UNCHANGED <<mementoVars, chainVars, invokerVars, subjectVars, iteratorVars>>
  \/ \E c \in Contexts : request1(c) /\ UNCHANGED <<mementoVars, chainVars, invokerVars, subjectVars, iteratorVars>>
  \/ \E c \in Contexts : request2(c) /\ UNCHANGED <<mementoVars, chainVars, invokerVars, subjectVars, iteratorVars>>

SpecContext == Init /\ [][NextContext]_vars

\* A subject whose client attaches, detaches and notifies in any order.
NextSubject ==
  \/ \E o \in ObserverIds : attach(o) /\ UNCHANGED <<mementoVars, chainVars, invokerVars, contextVars, iteratorVars>>
  \/ \E o \in ObserverIds : detach(o) /\ UNCHANGED <<mementoVars, chainVars, invokerVars, contextVars, iteratorVars>>
  \/ notify /\ UNCHANGED <<mementoVars, chainVars, invokerVars, contextVars, iteratorVars>>
  \/ someBusinessLogic /\ UNCHANGED <<mementoVars, chainVars, invokerVars, contextVars, iteratorVars>>

SpecSubject == Init /\ [][NextSubject]_vars

OtherThanIterator == <<mementoVars, chainVars, invokerVars, contextVars, subjectVars>>

\* A collection that is filled, iterated in either direction and rewound
\* in any order.  The client's loop runs on while valid() holds.
NextIterator ==
  \/ \E item \in Words : addItem(item) /\ UNCHANGED OtherThanIterator
  \/ getIterator /\ UNCHANGED OtherThanIterator
  \/ getReverseIterator /\ UNCHANGED OtherThanIterator
  \/ whileValidNext /\ UNCHANGED OtherThanIterator
  \/ rewind /\ UNCHANGED OtherThanIterator

SpecIterator ==
  /\ Init
  /\ [][NextIterator]_vars
  /\ WF_vars(whileValidNext /\ UNCHANGED OtherThanIterator)

\* ================================================================ claims
\* The calls so far read (doSomething backup)^n undo^k, and no capture is pending.
RoundTripRun == rt.phase # "off" /\ ~rt.pending

\* The results the specification names, as values of ret.
EmptyHistory == [error |-> "EmptyHistory"]
ForeignSnapshot == [error |-> "ForeignSnapshot"]
SnapshotId(i) == [id |-> i]

\* C1 as stated: after n mutations, each followed by a capture, and exactly n
\* undos, the originator holds the state v0 it was constructed with.
C1_RoundTripToInitial ==
  (RoundTripRun /\ rt.k = Len(rt.vals)) => state[Bound] = v0[Bound]

\* C1 as amended: after n >= 1 mutations, each followed by a capture, and
\* exactly n undos, the originator holds the state captured by the first
\* capture (its state after the first mutation); for n = 0 it holds v0.
C1_RoundTripToFirstCapture ==
  (RoundTripRun /\ rt.k = Len(rt.vals)) =>
    state[Bound] = (IF rt.vals = <<>> THEN v0[Bound] ELSE rt.vals[1])

C1_Witness ==
  /\ rt.phase = "undo"
  /\ Len(rt.vals) = 3
  /\ rt.k = 3
  /\ rt.vals[1] # v0[Bound]
  /\ rt.vals[3] # rt.vals[1]
  /\ state[Bound] = rt.vals[1]

\* The scenario of C2: constructed with "A", mutated to "B" and captured,
\* mutated to "C" and captured, then undone k times.
C2_Scenario(k) ==
  /\ rt.phase = "undo"
  /\ v0[Bound] = <<"A">>
  /\ rt.vals = << <<"B">>, <<"C">> >>
  /\ rt.k = k

\* C2 as stated: in the scenario the first undo makes the value "B" and
\* returns id 1, the second undo makes the value "A".
C2_UndoRestoresPrevious ==
  /\ C2_Scenario(1) =>
       (state[Bound] = <<"B">> /\ (lastOp = "undo" => ret = SnapshotId(1)))
  /\ C2_Scenario(2) => state[Bound] = <<"A">>

\* C2 as amended: in the scenario the first undo pops the snapshot on top of
\* the stack (the second one made) and leaves the value "C" stored in it,
\* the second undo pops the first snapshot and makes the value "B"; undo
\* returns nothing, and "A" is not restored.
C2_UndoRestoresTop ==
  /\ C2_Scenario(1) =>
       /\ state[Bound] = <<"C">>
       /\ lastOp = "undo" => (popped.id = 2 /\ ret = Undefined)
  /\ C2_Scenario(2) =>
       /\ state[Bound] = <<"B">>
       /\ lastOp = "undo" => (popped.id = 1 /\ ret = Undefined)

C2_Witness == C2_Scenario(2) /\ mementos = <<>> /\ lastOp = "undo"

\* C3: LIFO order.  After a run of backups, the k-th undo that follows pops
\* the k-th most recently made memento of the run and leaves the originator
\* in the state that memento captured.
C3_Lifo ==
  \A k \in 1..Min(Len(lifo.restored), Len(lifo.caps)) :
    LET m == lifo.caps[Len(lifo.caps) + 1 - k] IN
    /\ lifo.restored[k].id = m.id
    /\ lifo.restored[k].left = getState(m)

C3_Witness ==
  /\ Len(lifo.caps) = 3
  /\ Len(lifo.restored) = 3
  /\ Cardinality({getState(lifo.caps[i]) : i \in 1..3}) = 3
  /\ lifo.caps[1].id < lifo.caps[2].id
  /\ lifo.caps[2].id < lifo.caps[3].id

\* C4 as stated: undo on an empty array returns EmptyHistory and leaves the
\* originator's state and the array as they were.
C4_UndoEmptyFails ==
  [][(undo /\ mementos = <<>>) =>
       (ret' = EmptyHistory /\ state' = state /\ mementos' = mementos)]_vars

\* C4 as amended: undo on an empty array returns normally and without a
\* result (undefined, as a successful undo does), and leaves the
\* originator's state and the array as they were.
C4_UndoEmptyReturns ==
  [][(undo /\ mementos = <<>>) =>
       (ret' = Undefined /\ ~thrown' /\ state' = state /\ mementos' = mementos)]_vars

C4_Witness ==
  /\ lastOp = "undo"
  /\ popped = Undefined
  /\ mementos = <<>>
  /\ nextId > 1
  /\ state[Bound] # v0[Bound]

\* C5: snapshot isolation.  No call changes a memento the array already
\* holds, and a memento added to the array holds the state the originator
\* had when the call was made.
C5_SnapshotIsolation ==
  [][/\ \A i \in 1..Len(mementos) : \A j \in 1..Len(mementos') :
          mementos'[j].id = mementos[i].id => mementos'[j] = mementos[i]
     /\ Len(mementos') > Len(mementos) =>
          getState(mementos'[Len(mementos')]) = state[Bound]]_vars

C5_Witness ==
  /\ lastOp = "doSomething"
  /\ lifo.restored # <<>>
  /\ Len(mementos) >= 2
  /\ getState(mementos[1]) # state[Bound]
  /\ getState(mementos[2]) # state[Bound]
  /\ getState(mementos[1]) # getState(mementos[2])

\* C8 as stated: restoring on originator o a memento made by another
\* originator returns ForeignSnapshot and leaves o's state as it was.
C8_ForeignRejected ==
  [][\A o \in Originators :
       (clientRestore(o) /\ held.owner # o) =>
         (ret' = ForeignSnapshot /\ state'[o] = state[o])]_vars

\* C8 as amended: restoring on originator o a memento made by another
\* originator is not rejected: the call returns normally and o's state
\* becomes the state stored in the memento.
C8_ForeignAccepted ==
  [][\A o \in Originators :
       (clientRestore(o) /\ held.owner # o) =>
         (ret' = Undefined /\ ~thrown' /\ state'[o] = getState(held))]_vars

C8_Witness ==
  /\ lastOp = "restore"
  /\ held # Undefined
  /\ held.owner # lastArg
  /\ state[lastArg] = getState(held)
  /\ state[lastArg] # v0[lastArg]
  /\ state[held.owner] # getState(held)

\* C10 as stated: showHistory lists the mementos from the most recently
\* made to the oldest.
C10_NewestFirst ==
  lastOp = "showHistory" =>
    out = [i \in 1..Len(mementos) |-> getName(mementos[Len(mementos) + 1 - i])]

\* C10 as amended: showHistory lists the mementos from the oldest to the
\* most recently made (the order of the array, which is the order of making).
C10_OldestFirst ==
  /\ \A i \in 1..Len(mementos) : \A j \in 1..Len(mementos) :
       i < j => mementos[i].id < mementos[j].id
  /\ lastOp = "showHistory" =>
       out = [i \in 1..Len(mementos) |-> getName(mementos[i])]

C10_Witness ==
  /\ lastOp = "showHistory"
  /\ Len(mementos) = 3
  /\ out[1] # out[2]
  /\ out[2] # out[3]
  /\ out[1] # out[3]

\* C11: showHistory is read-only: it leaves the array of mementos (length,
\* order and contents) and the originator's state as they were.
C11_ShowHistoryReadOnly ==
  [][showHistory => (mementos' = mementos /\ state' = state)]_vars

C11_Witness ==
  /\ lastOp = "showHistory"
  /\ Len(out) >= 2
  /\ Len(mementos) = Len(out)
  /\ state[Bound] # v0[Bound]
  /\ getState(mementos[1]) # getState(mementos[2])

\* C12 as stated: the labels the caretaker shows do not depend on the
\* captured states: two lines of showHistory with the same timestamp are
\* the same label.
C12_LabelsIndependentOfState ==
  lastOp = "showHistory" =>
    \A i \in 1..Len(out) : \A j \in 1..Len(out) :
      out[i].date = out[j].date => out[i] = out[j]

\* C13 as stated: no call throws, and an undo with nothing to pop reports
\* EmptyHistory as its result.
C13_ErrorsAreResults ==
  /\ ~thrown
  /\ (lastOp = "undo" /\ popped = Undefined) => ret = EmptyHistory

\* C13 as amended: no sequence of backup, undo, doSomething and showHistory
\* calls throws (the throw of Caretaker.undo is not reached), and no call
\* reports an error as a result: each returns undefined, the undo with
\* nothing to pop too.
C13_NoThrowNoResult == ~thrown /\ ret = Undefined

C13_Witness ==
  /\ lastOp = "undo"
  /\ popped = Undefined
  /\ lifo.restored # <<>>
  /\ ~thrown

\* The mementos the caretaker holds: its only collection is the array.
CaretakerHolds == {mementos[i] : i \in 1..Len(mementos)}

\* C14 as stated: the caretaker starts empty, a backup leaves it with a
\* non-empty undo stack, and a successful undo moves one entry off the undo
\* stack to another stack of the caretaker: the entry is still held.
C14_UndoMovesEntry ==
  /\ mementos = <<>>
  /\ [][/\ backup => mementos' # <<>>
        /\ (undo /\ mementos # <<>>) =>
             (Len(mementos') = Len(mementos) - 1 /\ popped' \in CaretakerHolds')]_vars

\* C14 as amended: the caretaker starts empty, a backup leaves it with a
\* non-empty undo stack, and a successful undo removes the top entry of
\* the undo stack and drops it: the caretaker holds it nowhere (it has
\* one array, no redo stack and no redo), so that Empty and HasUndo are its
\* only states.
C14_UndoDropsEntry ==
  /\ mementos = <<>>
  /\ [][/\ backup => mementos' # <<>>
        /\ (undo /\ mementos # <<>>) =>
             /\ mementos' = SubSeq(mementos, 1, Len(mementos) - 1)
             /\ popped' = mementos[Len(mementos)]
             /\ popped' \notin CaretakerHolds']_vars

C14_Witness ==
  /\ lastOp = "undo"
  /\ popped # Undefined
  /\ mementos # <<>>
  /\ popped \notin CaretakerHolds

\* C15: no deduplication.  Every backup makes the array one longer, keeps
\* what it held and puts a new memento of the current state at the tail,
\* also when the state is the one the previous memento holds.
C15_BackupAlwaysAppends ==
  [][backup =>
       /\ Len(mementos') = Len(mementos) + 1
       /\ SubSeq(mementos', 1, Len(mementos)) = mementos
       /\ getState(mementos'[Len(mementos')]) = state[Bound]
       /\ mementos'[Len(mementos')].id = nextId]_vars

C15_Witness ==
  /\ lastOp = "backup"
  /\ Len(mementos) >= 2
  /\ getState(mementos[Len(mementos)]) = getState(mementos[Len(mementos) - 1])
  /\ getDate(mementos[Len(mementos)]) = getDate(mementos[Len(mementos) - 1])
  /\ mementos[Len(mementos)].id = mementos[Len(mementos) - 1].id + 1

\* The calls so far read (backup doSomething)^n undo^k, and no mutation is pending.
BackupFirstRun == bd.phase # "off" /\ ~bd.pending

\* C17: backup before mutation.  After n pairs of backup and doSomething,
\* k undos (1 <= k <= n) leave the originator in the state it had just
\* before the (n-k+1)-th doSomething and n - k mementos in the array; so n
\* undos restore the state of construction and empty the array.
C17_BackupBeforeMutation ==
  BackupFirstRun =>
    LET n == Len(bd.vals) IN
    /\ Len(mementos) = n - bd.k
    /\ bd.k >= 1 => state[Bound] = bd.vals[n - bd.k + 1]
    /\ (bd.k = n) => (state[Bound] = v0[Bound] /\ mementos = <<>>)

C17_Witness ==
  /\ bd.phase = "undo"
  /\ Len(bd.vals) = 3
  /\ bd.k = 3
  /\ Cardinality({bd.vals[i] : i \in 1..3}) = 3
  /\ state[Bound] = v0[Bound]
  /\ lastOp = "undo"

\* The handlers from h to the end of the chain, at most n + 1 of them.
RECURSIVE chainFrom(_, _)
chainFrom(h, n) ==
  IF nextHandler[h] = NoHandler \/ n = 0 THEN <<h>>
  ELSE <<h>> \o chainFrom(nextHandler[h], n - 1)

\* The chain of the last call, and whether it has an end.
LastChain == chainFrom(entry, Cardinality(Handlers))
LastChainEnds == nextHandler[LastChain[Len(LastChain)]] = NoHandler
LastRecognisers == {i \in 1..Len(LastChain) : recognises(LastChain[i], request)}

\* C18 as stated: on a chain with an end, a request nobody from the entry
\* handler on recognises gives a falsy result and the line "left
\* untouched"; a recognised one gives the response of the first handler of
\* the chain that recognises it; only handlers of the chain are consulted.
C18_HandlerChain ==
  (entry # NoHandler /\ LastChainEnds) =>
    /\ LastRecognisers = {} =>
         (~truthy(result) /\ printed = <<"  ", request, " was left untouched.">>)
    /\ LastRecognisers # {} =>
         LET f == CHOOSE i \in LastRecognisers : \A j \in LastRecognisers : i <= j IN
         /\ result = response(LastChain[f], request)
         /\ consulted = SubSeq(LastChain, 1, f)
    /\ \A i \in 1..Len(consulted) : \E j \in 1..Len(LastChain) : consulted[i] = LastChain[j]

\* The part of C18 the code keeps: the recognised request, and the handlers consulted.
C18_RecognisedPart ==
  (entry # NoHandler /\ LastChainEnds) =>
    /\ LastRecognisers = {} => (result = <<"abstract">> /\ consulted = LastChain)
    /\ LastRecognisers # {} =>
         LET f == CHOOSE i \in LastRecognisers : \A j \in LastRecognisers : i <= j IN
         /\ result = response(LastChain[f], request)
         /\ consulted = SubSeq(LastChain, 1, f)
    /\ ~overflow

\* The commands that are set, the one of onStart first.
CommandsSet ==
  (IF onStart = Undefined THEN <<>> ELSE <<onStart>>)
    \o (IF onFinish = Undefined THEN <<>> ELSE <<onFinish>>)

\* C19 as stated: doSomethingImportant ends without throwing whether
\* onStart and onFinish are set or not, having executed exactly the commands
\* that are set, each once, the one of onStart before the one of onFinish.
C19_InvokerNeverThrows ==
  invokerOp = "doSomethingImportant" =>
    (~typeError /\ executed = CommandsSet)

\* What the code does when both commands are set.
C19_BothSetPart ==
  (invokerOp = "doSomethingImportant" /\ onStart # Undefined /\ onFinish # Undefined) =>
    (~typeError /\ executed = <<onStart, onFinish>>)

\* The class of the current state of a constructed context.
ClassOf(c) == stateObjects[contextState[c]].class

\* The current state of every constructed context is a ConcreteStateA or a
\* ConcreteStateB whose back-reference is that context.
CurrentStateOwned ==
  \A c \in Contexts :
    contextState[c] # 0 =>
      /\ contextState[c] \in 1..Len(stateObjects)
      /\ ClassOf(c) \in StateClasses
      /\ stateObjects[contextState[c]].context = c

\* What a request on context c does to its state, and to nothing else.
RequestStep(c, from, to) ==
  /\ \A d \in Contexts \ {c} : contextState'[d] = contextState[d]
  /\ IF ClassOf(c) = from
     THEN /\ ClassOf(c)' = to
          /\ contextState'[c] # contextState[c]
     ELSE /\ contextState'[c] = contextState[c]
          /\ stateObjects' = stateObjects

\* C20: after any sequence of request1 and request2 calls the current state
\* of a context is a ConcreteStateA or a ConcreteStateB whose back-reference
\* is that context; request1 changes A to B and leaves B unchanged,
\* request2 changes B to A and leaves A unchanged.
C20_StateTransitions ==
  /\ []CurrentStateOwned
  /\ [][\A c \in Contexts :
          /\ (contextOp'.op = "request1" /\ contextOp'.context = c)
               => RequestStep(c, "ConcreteStateA", "ConcreteStateB")
          /\ (contextOp'.op = "request2" /\ contextOp'.context = c)
               => RequestStep(c, "ConcreteStateB", "ConcreteStateA")]_vars

\* Both contexts are constructed, one is in A and the other in B, and a
\* request has just been served after several transitions.
C20_Witness ==
  /\ contextState["c1"] # 0
  /\ contextState["c2"] # 0
  /\ ClassOf("c1") = "ConcreteStateA"
  /\ ClassOf("c2") = "ConcreteStateB"
  /\ Len(stateObjects) >= 5
  /\ contextOp.op = "request2"
  /\ contextOp.context = "c1"

\* No observer appears more than once in the list.
NoDuplicates(array) ==
  \A i \in 1..Len(array) : \A j \in 1..Len(array) : array[i] = array[j] => i = j

\* The elements of array other than x, in the order of array.
RECURSIVE Without(_, _)
Without(array, x) ==
  IF array = <<>> THEN <<>>
  ELSE IF Head(array) = x THEN Without(Tail(array), x)
  ELSE <<Head(array)>> \o Without(Tail(array), x)

\* C21: after any sequence of attach and detach calls no observer appears
\* more than once in the observers list; attach of an attached observer and
\* detach of an observer that is not attached leave the list unchanged, and
\* detach keeps the relative order of the remaining observers.
C21_ObserverList ==
  /\ []NoDuplicates(observers)
  /\ [][\A o \in ObserverIds :
          /\ (subjectOp'.op = "attach" /\ subjectOp'.observer = o /\ includes(observers, o))
               => observers' = observers
          /\ (subjectOp'.op = "attach" /\ subjectOp'.observer = o /\ ~includes(observers, o))
               => observers' = Append(observers, o)
          /\ (subjectOp'.op = "detach" /\ subjectOp'.observer = o /\ ~includes(observers, o))
               => observers' = observers
          /\ (subjectOp'.op = "detach" /\ subjectOp'.observer = o /\ includes(observers, o))
               => observers' = Without(observers, o)]_vars

\* One of three attached observers has just been detached and the other
\* two remain.
C21_Witness ==
  /\ subjectOp.op = "detach"
  /\ subjectLog = "Subject: Detached an observer."
  /\ Len(observers) = 2
  /\ detached = {subjectOp.observer}

\* The observers of the update calls of the last notify, in call order.
UpdatedObservers == [i \in 1..Len(updated) |-> updated[i].observer]

\* C22: each notify(), and each someBusinessLogic after its state change,
\* calls update once on every attached observer, in the order the observers
\* were attached, and on no observer that was detached and not attached
\* again; the observers see the state the subject has after the change.
C22_NotifyAttached ==
  subjectOp.op \in {"notify", "someBusinessLogic"} =>
    /\ UpdatedObservers = observers
    /\ \A i \in 1..Len(updated) :
         /\ updated[i].observer \notin detached
         /\ updated[i].reacted = update(updated[i].observer, subjectState)

\* someBusinessLogic has notified two observers of different classes, of
\* which only the second reacts, after a third observer was detached.
C22_Witness ==
  /\ subjectOp.op = "someBusinessLogic"
  /\ Len(updated) = 2
  /\ ObserverClass(updated[1].observer) # ObserverClass(updated[2].observer)
  /\ ~updated[1].reacted
  /\ updated[2].reacted
  /\ detached # {}

\* The sequence from its last element to its first.
Reverse(array) == [i \in 1..Len(array) |-> array[Len(array) + 1 - i]]

\* What a traversal by the iterator is to yield: the items in insertion
\* order, or in reverse insertion order for a reverse iterator.
Expected == IF iterator.reverse THEN Reverse(items) ELSE items

\* The iterator exists and no item was added since it was created.
Unmodified == iterator.created /\ ~modified

\* C23: for a collection of n items not modified since the iterator was
\* created, the loop `while (valid()) next()` ends after exactly n calls of
\* next(), having yielded every item once, in insertion order for
\* getIterator and in reverse insertion order for getReverseIterator (no
\* round when n = 0); a traversal after rewind() yields the same.
C23_Traversal ==
  /\ [](Unmodified =>
          /\ Len(yielded) <= Len(items)
          /\ yielded = SubSeq(Expected, 1, Len(yielded))
          /\ valid(iterator, items) <=> Len(yielded) < Len(items)
          /\ (~valid(iterator, items) /\ previous.complete)
               => yielded = previous.yielded)
  /\ [](iterator.created => <>(~valid(iterator, items)))

\* A reverse traversal of three items has ended, after a rewind that
\* followed a complete traversal.
C23_Witness ==
  /\ Unmodified
  /\ iterator.reverse
  /\ Len(items) = MaxItems
  /\ items[1] # items[MaxItems]
  /\ previous.complete
  /\ iteratorOp = "next"
  /\ ~valid(iterator, items)

====
